---- MODULE Spec2Model ----
(***************************************************************************)
(* DendroBLAST distance matrices of orthofinder/scripts/orthologues.py:    *)
(* the scatter of normalised BLAST scores into the per-orthogroup matrices *)
(* by a pool of worker processes (Worker_OGMatrices_ReadBLASTAndUpdate-    *)
(* Distances, GetOGMatrices_FullParallel), the in-place log transform      *)
(* (CompleteAndWriteOGMatrices) and the Phylip writer (WritePhylipMatrix). *)
(*                                                                         *)
(* Floating point numbers are fixed-point integers in units of 1e-7, with  *)
(* reserved codes for +inf, -inf, nan and the program's 9e99 sentinels.    *)
(* Sequences are 1-based here and 0-based in the program; a gene keeps its *)
(* 0-based species and sequence numbers.                                   *)
(***************************************************************************)
EXTENDS Integers, Sequences, FiniteSets

\* ------------------------------------------------------------------ bounds
MaxProcesses == 2
LowScore == 5
HighScore == 10

\* ------------------------------------------------------- numbers (float64)
One == 10^7
Half == One \div 2
PosInf == 2 * 10^9
NegInf == -PosInf
NaN == 21 * 10^8
\* 9e99, -9e99 and 1.1 * -9e99
Big == 10^9
NegBig == -Big
NegBig11 == -(11 * 10^8)
\* sliver = 1e-6
sliver == 10

\* Python's a > b on floats: every comparison with nan is false.
Gt(a, b) == a # NaN /\ b # NaN /\ a > b

\* Python's builtin max(a, b): b when b > a, else a.
PyMax(a, b) == IF Gt(b, a) THEN b ELSE a

AddNum(a, b) ==
    IF a = NaN \/ b = NaN THEN NaN
    ELSE IF (a = PosInf /\ b = NegInf) \/ (a = NegInf /\ b = PosInf) THEN NaN
    ELSE IF a = PosInf \/ b = PosInf THEN PosInf
    ELSE IF a = NegInf \/ b = NegInf THEN NegInf
    ELSE a + b

\* 1.1 * x
Mul11(x) ==
    IF x \in {NaN, PosInf, NegInf} THEN x
    ELSE IF x = NegBig THEN NegBig11
    ELSE IF x >= 0 THEN (11 * x) \div 10
    ELSE -((11 * (-x)) \div 10)

\* floor(a * 10^k / b) by long division, for 0 <= a and 0 < b
RECURSIVE LongDiv(_, _, _)
LongDiv(a, b, k) ==
    IF k = 0 THEN a \div b
    ELSE (a \div b) * 10^k + LongDiv((a % b) * 10, b, k - 1)

\* The logarithm is computed with one more decimal digit (units of 1e-8).
\* a * b of two numbers in [0, 1) in units of 1e-8, without leaving 32 bits
MulFix(a, b) ==
    LET a1  == a \div 10^4
        a0  == a % 10^4
        b1  == b \div 10^4
        b0  == b % 10^4
        mid == a1 * b0 + a0 * b1
    IN  a1 * b1 + (mid \div 10^4) + (((mid % 10^4) * 10^4 + a0 * b0) \div 10^8)

\* z + z^3/3 + z^5/5 + ... + z^17/17 (p is z^n), for 0 <= z <= 1/3
RECURSIVE AtanhTerms(_, _, _)
AtanhTerms(p, z2, n) ==
    IF n > 17 \/ p = 0 THEN 0
    ELSE ((p + (n \div 2)) \div n) + AtanhTerms(MulFix(p, z2), z2, n + 2)

Atanh(z) == AtanhTerms(z, MulFix(z, z), 1)

\* ln 2 = 2 atanh(1/3)
Ln2 == 2 * Atanh(10^8 \div 3)

\* ln m for 1 <= m < 2: 2 atanh((m - 1) / (m + 1))
Ln1to2(m) == 2 * Atanh(LongDiv(m - One, m + One, 8))

\* ln m = e ln 2 + ln (m / 2^e)
RECURSIVE LnNorm(_, _)
LnNorm(m, acc) ==
    IF m < One THEN LnNorm(2 * m, acc - Ln2)
    ELSE IF m >= 2 * One THEN LnNorm(m \div 2, acc + Ln2)
    ELSE acc + Ln1to2(m)

\* y / 10, rounded to the nearest
Round10(y) == IF y >= 0 THEN (y + 5) \div 10 ELSE -((5 - y) \div 10)

\* -np.log(x) with divide warnings ignored: log(0) = -inf, log(inf) = inf
NegLog(x) ==
    IF x = NaN THEN NaN
    ELSE IF x = PosInf THEN NegInf
    ELSE IF x = 0 THEN PosInf
    ELSE IF x < 0 THEN NaN
    ELSE -Round10(LnNorm(x, 0))

\* ------------------------------------------------------------- formatting
Digit(d) == SubSeq("0123456789", d + 1, d + 1)

\* "%d" of a natural number
RECURSIVE NatStr(_)
NatStr(n) == IF n < 10 THEN Digit(n) ELSE NatStr(n \div 10) \o Digit(n % 10)

\* the k low decimal digits of n, zero padded
RECURSIVE Digits(_, _)
Digits(n, k) == IF k = 0 THEN "" ELSE Digits(n \div 10, k - 1) \o Digit(n % 10)

\* "%.6f" % v
Format6(v) ==
    IF v = NaN THEN "nan"
    ELSE IF v = PosInf THEN "inf"
    ELSE IF v = NegInf THEN "-inf"
    ELSE IF v = NegBig11
         THEN "-9900000000000000720812600732084619230321153457126311502181497607290821547474276074487577995508711424.000000"
    ELSE LET a == IF v < 0 THEN -v ELSE v
             r == (a + 5) \div 10
         IN  (IF v < 0 THEN "-" ELSE "")
             \o NatStr(r \div 10^6) \o "." \o Digits(r % 10^6, 6)

RECURSIVE JoinSp(_)
JoinSp(strs) ==
    IF Len(strs) = 0 THEN ""
    ELSE IF Len(strs) = 1 THEN strs[1]
    ELSE strs[1] \o " " \o JoinSp(Tail(strs))

\* ------------------------------------------------------------------ inputs
\* a Seq object
Gene(sp, q) == [iSp |-> sp, iSeq |-> q]

\* Seq.ToString
ToString(g) == NatStr(g.iSp) \o "_" \o NatStr(g.iSeq)

\* str.split(ch): the positions of ch in str with both ends, and the parts
SplitPositions(str, ch) ==
    { 0, Len(str) + 1 } \cup { k \in 1..Len(str) : SubSeq(str, k, k) = ch }
Split(str, ch) ==
    LET sp == SplitPositions(str, ch)
        at(f) == CHOOSE k \in sp : Cardinality({ l \in sp : l < k }) = f
    IN  [f \in 1..(Cardinality(sp) - 1) |-> SubSeq(str, at(f - 1) + 1, at(f) - 1)]

\* int(t) succeeds: t is a decimal numeral (signs and blanks are not modelled)
IsNumeral(t) ==
    /\ Len(t) > 0
    /\ \A k \in 1..Len(t) : \E d \in 0..9 : SubSeq(t, k, k) = Digit(d)

\* int(t) for a numeral t, from its first k characters
RECURSIVE IntOf(_, _)
IntOf(t, k) ==
    IF k = 0 THEN 0
    ELSE 10 * IntOf(t, k - 1) + (CHOOSE d \in 0..9 : SubSeq(t, k, k) = Digit(d))

\* The outcomes of Seq(seqInput): the object, or the exception raised
Made(g) == [ok |-> TRUE, seq |-> g, error |-> ""]
Raised(e) == [ok |-> FALSE, seq |-> Gene(0, 0), error |-> e]

\* self.iSp, self.iSeq = map(int, seqInput.split("_")): int raises ValueError
\* for a part that is no numeral, the assignment for a number of parts
\* other than two
SeqFromText_Swapped(text) ==
    LET parts == Split(text, "_")
    IN  IF \E f \in DOMAIN parts : ~IsNumeral(parts[f]) THEN Raised("ValueError")
        ELSE IF Len(parts) # 2 THEN Raised("ValueError")
        ELSE Made(Gene(IntOf(parts[2], Len(parts[2])), IntOf(parts[1], Len(parts[1]))))
SeqFromText(text) ==
    LET parts == Split(text, "_")
    IN  IF \E f \in DOMAIN parts : ~IsNumeral(parts[f]) THEN Raised("ValueError")
        ELSE IF Len(parts) # 2 THEN Raised("ValueError")
        ELSE Made(Gene(IntOf(parts[1], Len(parts[1])), IntOf(parts[2], Len(parts[2]))))

\* Seq.__init__ for seqInput a str (kind "str"), a tuple or list of integers
\* (kind "list") or an integer (kind "int"). "seqInput[0] is str" compares
\* an element with the type str and is false for every element, so a pair is
\* stored as it is. "raise NotImplemented" raises TypeError, as NotImplemented
\* is no exception class; len() of an integer raises TypeError too.
SeqInit(seqInput) ==
    IF seqInput.kind = "str" THEN SeqFromText(seqInput.text)
    ELSE IF seqInput.kind = "list"
         THEN IF Len(seqInput.items) = 2
              THEN Made(Gene(seqInput.items[1], seqInput.items[2]))
              ELSE Raised("TypeError")
    ELSE Raised("TypeError")

\* Seq.__eq__(x, y) for two Seq objects: self.__dict__ == other.__dict__
SeqEq(x, y) == x.iSp = y.iSp /\ x.iSeq = y.iSeq

\* The runs: seqsInfo (speciesToUse, nSeqsPerSpecies) with the orthogroup
\* lists ogSet.OGs() may return for it. Two species, the first with two
\* sequences; and three species (species 1 is not used) of one sequence each.
RunInputs ==
    LET infoA == [speciesToUse |-> << 0, 1 >>,
                  nSeqsPerSpecies |-> [sp \in {0, 1} |-> IF sp = 0 THEN 2 ELSE 1]]
        infoB == [speciesToUse |-> << 0, 2, 3 >>,
                  nSeqsPerSpecies |-> [sp \in {0, 2, 3} |-> 1]]
    IN  { [seqsInfo |-> infoA,
           ogs |-> << << Gene(0, 0), Gene(1, 0), Gene(0, 1) >> >>],
          [seqsInfo |-> infoA,
           ogs |-> << << Gene(0, 0), Gene(1, 0) >>, << Gene(0, 1) >> >>],
          [seqsInfo |-> infoA,
           ogs |-> << << Gene(0, 0), Gene(0, 1) >>, << Gene(1, 0) >> >>],
          [seqsInfo |-> infoB,
           ogs |-> << << Gene(2, 0), Gene(0, 0), Gene(3, 0) >> >>],
          [seqsInfo |-> infoB,
           ogs |-> << << Gene(3, 0), Gene(0, 0) >>, << Gene(2, 0) >> >>] }

\* The scores a BLAST file may hold; 0 is an entry the sparse matrix does not store.
ScoreVals == {0, LowScore, HighScore}

\* Position of species sp in the list spp
SpIndex(spp, sp) == CHOOSE k \in 1..Len(spp) : spp[k] = sp

\* The list Bs of one worker iteration: Bs[<<jjSp, r, c>>] is B[r, c] of the
\* matrix GetBLAST6Scores returns for (sp1, speciesToUse[jjSp]).
BsDomain(info, sp1) ==
    { x \in (1..Len(info.speciesToUse)) \X (0..1) \X (0..1) :
          /\ x[2] < info.nSeqsPerSpecies[sp1]
          /\ x[3] < info.nSeqsPerSpecies[info.speciesToUse[x[1]]] }
BsChoices(info, sp1) == [BsDomain(info, sp1) -> ScoreVals]

SetMin(S) == CHOOSE x \in S : \A y \in S : x <= y
SetMax(S) == CHOOSE x \in S : \A y \in S : x >= y

\* The stored entries (values.data[0]) of row r of matrix jj of Bs, as a set
RowData(info, Bs, jj, r) ==
    { Bs[<<jj, r, c>>] :
        c \in 0..(info.nSeqsPerSpecies[info.speciesToUse[jj]] - 1) } \ {0}

\* Per row of sp1: the entries stored in that row in any matrix of Bs
StoredScores(info, Bs, sp1) ==
    [r \in 0..(info.nSeqsPerSpecies[sp1] - 1) |->
        UNION { RowData(info, Bs, jj, r) : jj \in 1..Len(info.speciesToUse) }]

\* lil_minmax(B) for B = Bs[jj]: the pair (mins[r], maxes[r]) of its row r
lil_minmax_Dense(info, Bs, jj, r) ==
    LET cols   == 0..(info.nSeqsPerSpecies[info.speciesToUse[jj]] - 1)
        stored == { Bs[<<jj, r, c>>] : c \in cols }
    IN  IF stored = {0} THEN [min |-> Big, max |-> 0]
        ELSE [min |-> SetMin(stored), max |-> SetMax(stored)]
lil_minmax(info, Bs, jj, r) ==
    LET cols   == 0..(info.nSeqsPerSpecies[info.speciesToUse[jj]] - 1)
        stored == { Bs[<<jj, r, c>>] : c \in cols } \ {0}
    IN  IF stored = {} THEN [min |-> Big, max |-> 0]
        ELSE [min |-> SetMin(stored), max |-> SetMax(stored)]

\* mins and maxes of the worker after its loop over Bs
WorkerMins(info, Bs, sp1) ==
    [r \in 0..(info.nSeqsPerSpecies[sp1] - 1) |->
        SetMin({Big} \cup { lil_minmax(info, Bs, jj, r).min :
                                jj \in 1..Len(info.speciesToUse) })]
WorkerMaxes(info, Bs, sp1) ==
    [r \in 0..(info.nSeqsPerSpecies[sp1] - 1) |->
        SetMax({0} \cup { lil_minmax(info, Bs, jj, r).max :
                              jj \in 1..Len(info.speciesToUse) })]

\* 0.5*max(B[gi.iSeq, gj.iSeq], mins[gi.iSeq]) * maxes_inv[gi.iSeq], where
\* maxes_inv = 1./maxes is inf for a zero maximum (divide warnings ignored).
\* The quotient is rounded toward zero at 1e-7.
ScatterValue_NoHalf(b, mn, mx) ==
    LET x == PyMax(b, mn)
    IN  IF mx = 0 THEN (IF x = 0 THEN NaN ELSE PosInf)
        ELSE (One * x) \div mx
ScatterValue_Guarded(b, mn, mx) ==
    LET x == PyMax(b, mn)
    IN  IF mx = 0 THEN 0
        ELSE (Half * x) \div mx
ScatterValue(b, mn, mx) ==
    LET x == PyMax(b, mn)
    IN  IF mx = 0 THEN (IF x = 0 THEN NaN ELSE PosInf)
        ELSE (Half * x) \div mx

\* ogsPerSpecies[og][k]: the positions in og of the genes of species spp[k]
ogsPerSpecies(spp, og, k) == { i \in 1..Len(og) : og[i].iSp = spp[k] }

\* The loops "for gi, i in og[iiSp]: for gj, j in og[jjSp]" reach the pair
\* (i, j), for some jjSp
IsLoopPair_OtherSpecies(spp, og, iiSp, i, j) ==
    /\ i \in ogsPerSpecies(spp, og, iiSp)
    /\ \E jjSp \in (1..Len(spp)) \ {iiSp} : j \in ogsPerSpecies(spp, og, jjSp)
IsLoopPair(spp, og, iiSp, i, j) ==
    /\ i \in ogsPerSpecies(spp, og, iiSp)
    /\ \E jjSp \in 1..Len(spp) : j \in ogsPerSpecies(spp, og, jjSp)

\* The loop pair (i, j) whose iteration assigns cell (a, b): m[i][j] = ...
AssignedFrom_Transposed(a, b) == << b, a >>
AssignedFrom(a, b) == << a, b >>

\* Cell (a, b) of og is assigned by the worker iteration for species position iiSp
IsWriteCell(spp, og, iiSp, a, b) ==
    IsLoopPair(spp, og, iiSp, AssignedFrom(a, b)[1], AssignedFrom(a, b)[2])

\* The four nested loops of the worker over Bs, the orthogroups and their genes
Scatter(spp, ogList, M, iiSp, Bs, mn, mx) ==
    [iog \in 1..Len(ogList) |->
        [a \in 1..Len(ogList[iog]) |->
            [b \in 1..Len(ogList[iog]) |->
                IF IsWriteCell(spp, ogList[iog], iiSp, a, b)
                THEN LET gi == ogList[iog][AssignedFrom(a, b)[1]]
                         gj == ogList[iog][AssignedFrom(a, b)[2]]
                     IN  ScatterValue(Bs[<<SpIndex(spp, gj.iSp), gi.iSeq, gj.iSeq>>],
                                      mn[gi.iSeq], mx[gi.iSeq])
                ELSE M[iog][a][b]]]]

\* ------------------------------------------------------- transform, writer
\* One iteration of the inner loop of CompleteAndWriteOGMatrices
TransformCell_NoMirror(st, i, j) ==
    LET m1 == [st.m EXCEPT ![i][j] = NegLog(AddNum(st.m[i][j], st.m[j][i]))]
    IN  [m |-> m1, max_og |-> PyMax(st.max_og, m1[i][j])]
TransformCell(st, i, j) ==
    LET m1 == [st.m EXCEPT ![i][j] = NegLog(AddNum(st.m[i][j], st.m[j][i]))]
        m2 == [m1 EXCEPT ![j][i] = m1[i][j]]
    IN  [m |-> m2, max_og |-> PyMax(st.max_og, m2[i][j])]

RECURSIVE TransformRow_FullRow(_, _, _)
TransformRow_FullRow(st, i, j) ==
    IF j > Len(st.m) THEN st
    ELSE TransformRow_FullRow(IF j = i THEN st ELSE TransformCell(st, i, j), i, j + 1)

RECURSIVE TransformRow_WithDiagonal(_, _, _)
TransformRow_WithDiagonal(st, i, j) ==
    IF j > i THEN st ELSE TransformRow_WithDiagonal(TransformCell(st, i, j), i, j + 1)

RECURSIVE TransformRow(_, _, _)
TransformRow(st, i, j) ==
    IF j >= i THEN st ELSE TransformRow(TransformCell(st, i, j), i, j + 1)

RECURSIVE TransformRows(_, _)
TransformRows(st, i) ==
    IF i > Len(st.m) THEN st ELSE TransformRows(TransformRow(st, i, 1), i + 1)

\* The loops over i and j for one orthogroup matrix m, from max_og = -9e99
Transform(m) == TransformRows([m |-> m, max_og |-> NegBig], 1)

\* The list V of row i in WritePhylipMatrix
PhylipValues_NoSentinel(m, i, max_og) ==
    [j \in 1..Len(m) |->
        LET v == AddNum(0, m[i][j])
        IN  IF Gt(v, 0) /\ Gt(sliver, v) THEN sliver ELSE v]
PhylipValues(m, i, max_og) ==
    LET mo == Mul11(max_og)
    IN  [j \in 1..Len(m) |->
            LET v == AddNum(0, IF Gt(m[i][j], NegBig) THEN m[i][j] ELSE mo)
            IN  IF Gt(v, 0) /\ Gt(sliver, v) THEN sliver ELSE v]

\* The lines WritePhylipMatrix writes to outFN
WritePhylipMatrix_NoHeader(m, names, max_og) ==
    [i \in 1..Len(m) |->
        names[i] \o " " \o
        JoinSp([j \in 1..Len(m) |-> Format6(PhylipValues(m, i, max_og)[j])])]
WritePhylipMatrix(m, names, max_og) ==
    << NatStr(Len(m)) >> \o
    [i \in 1..Len(m) |->
        names[i] \o " " \o
        JoinSp([j \in 1..Len(m) |-> Format6(PhylipValues(m, i, max_og)[j])])]

\* --------------------------------------------------- species tree, commands
\* itertools.combinations(spp, 2), from the pair of positions (a, b)
RECURSIVE Combinations2(_, _, _)
Combinations2(spp, a, b) ==
    IF a >= Len(spp) THEN << >>
    ELSE IF b > Len(spp) THEN Combinations2(spp, a + 1, a + 2)
    ELSE << << spp[a], spp[b] >> >> \o Combinations2(spp, a, b + 1)

spPairs(spp) == Combinations2(spp, 1, 2)

\* spDict[sp] of orthogroup og: the positions of its genes of species sp, from i on
RECURSIVE spDict(_, _, _)
spDict(og, sp, i) ==
    IF i > Len(og) THEN << >>
    ELSE (IF og[i].iSp = sp THEN << i >> ELSE << >>) \o spDict(og, sp, i + 1)

\* [m[i][j] for j in js]
RECURSIVE RowDistances(_, _, _)
RowDistances(m, i, js) ==
    IF js = << >> THEN << >>
    ELSE << m[i][Head(js)] >> \o RowDistances(m, i, Tail(js))

\* distances = [m[i][j] for i in spDict[sp1] for j in spDict[sp2]]
RECURSIVE Distances(_, _, _)
Distances(m, is, js) ==
    IF is = << >> THEN << >>
    ELSE RowDistances(m, Head(is), js) \o Distances(m, Tail(is), js)

\* Python's builtin min of a non-empty list: a later item replaces the
\* candidate only when it is smaller
RECURSIVE PyMinFrom(_, _)
PyMinFrom(cand, rest) ==
    IF rest = << >> THEN cand
    ELSE PyMinFrom(IF Gt(cand, Head(rest)) THEN Head(rest) ELSE cand, Tail(rest))

PyMin(list) == PyMinFrom(Head(list), Tail(list))

\* What one orthogroup adds to d_list: "if len(distances) > 0:
\* d_list.append(min(distances))"
Sample_Placeholder(distances) ==
    IF Len(distances) > 0 THEN << PyMin(distances) >> ELSE << 0 >>
Sample(distances) ==
    IF Len(distances) > 0 THEN << PyMin(distances) >> ELSE << >>

\* The body of the loop of SpeciesTreeDistances for orthogroup og with matrix m
SpeciesTreeDistancesOG(spp, Dl, og, m) ==
    [p \in 1..Len(spPairs(spp)) |->
        Dl[p] \o Sample(Distances(m, spDict(og, spPairs(spp)[p][1], 1),
                                     spDict(og, spPairs(spp)[p][2], 1)))]

\* x inserted into the ascending list srt (no nan among the samples)
RECURSIVE Insert(_, _)
Insert(x, srt) ==
    IF srt = << >> THEN << x >>
    ELSE IF x <= Head(srt) THEN << x >> \o srt
    ELSE << Head(srt) >> \o Insert(x, Tail(srt))

RECURSIVE Sorted(_)
Sorted(d) == IF d = << >> THEN << >> ELSE Insert(Head(d), Sorted(Tail(d)))

\* x / 2.0, rounded toward zero at 1e-7
HalfNum(x) ==
    IF x \in {NaN, PosInf, NegInf} THEN x
    ELSE IF x >= 0 THEN x \div 2 ELSE -((-x) \div 2)

\* np.median(d): nan for an empty list, the middle of the sorted list, or the
\* mean of its two middle elements
Median_LowerMiddle(d) ==
    IF Len(d) = 0 THEN NaN
    ELSE Sorted(d)[(Len(d) + 1) \div 2]
Median(d) ==
    IF Len(d) = 0 THEN NaN
    ELSE IF Len(d) % 2 = 1 THEN Sorted(d)[(Len(d) + 1) \div 2]
    ELSE HalfNum(AddNum(Sorted(d)[Len(d) \div 2], Sorted(d)[Len(d) \div 2 + 1]))

\* The index of the pair of the species at positions a # b in spPairs
PairIndex(spp, a, b) ==
    CHOOSE p \in 1..Len(spPairs(spp)) :
        spPairs(spp)[p] \in { << spp[a], spp[b] >>, << spp[b], spp[a] >> }

\* The matrix M of PrepareSpeciesTreeCommand
SpeciesMatrix(spp, Dl) ==
    [a \in 1..Len(spp) |->
        [b \in 1..Len(spp) |->
            IF a = b THEN 0 ELSE Median(Dl[PairIndex(spp, a, b)])]]

\* The list V of row i of the species matrix file
SpeciesValues_NoSliver(Mx, i) == [j \in 1..Len(Mx) |-> AddNum(0, Mx[i][j])]
SpeciesValues(Mx, i) ==
    [j \in 1..Len(Mx) |->
        LET v == AddNum(0, Mx[i][j])
        IN  IF Gt(v, 0) /\ Gt(sliver, v) THEN sliver ELSE v]

\* The lines PrepareSpeciesTreeCommand writes to speciesMatrixFN
SpeciesMatrixLines(spp, Mx) ==
    << NatStr(Len(spp)) >> \o
    [i \in 1..Len(spp) |->
        NatStr(spp[i]) \o " " \o
        JoinSp([j \in 1..Len(spp) |-> Format6(SpeciesValues(Mx, i)[j])])]

\* The paths files.FileHandler hands out. The class is not part of the source:
\* the strings stand for its paths, one per orthogroup and kind of file.
GetOGsDistMatFN(iog) == "Distances/OG" \o NatStr(iog) \o ".phy"
GetOGsTreeFN(iog) == "Trees_ids/OG" \o NatStr(iog) \o "_tree_id.txt"
GetSpeciesTreeMatrixFN == "Distances/SpeciesMatrix.phy"
GetSpeciesTreeUnrootedFN == "Trees_ids/SpeciesTree_unrooted.txt"

\* " ".join(["fastme", "-i", inFN, "-o", outFN, "-N", "-w", "O"]
\*          + (["-s"] if n < 1000 else []))
FastmeCommand_Inclusive(inFN, outFN, n) ==
    JoinSp(<< "fastme", "-i", inFN, "-o", outFN, "-N", "-w", "O" >>
           \o (IF n <= 1000 THEN << "-s" >> ELSE << >>))
FastmeCommand(inFN, outFN, n) ==
    JoinSp(<< "fastme", "-i", inFN, "-o", outFN, "-N", "-w", "O" >>
           \o (IF n < 1000 THEN << "-s" >> ELSE << >>))

\* EnoughOGsForSTAG(ogs, speciesToUse)
EnoughOGsForSTAG(ogList, spp) ==
    Cardinality({ iog \in 1..Len(ogList) :
                    Cardinality({ ogList[iog][i].iSp : i \in 1..Len(ogList[iog]) })
                        = Len(spp) }) >= 100

\* ------------------------------------------- inputs of the tree phase
\* Values the scatter leaves in a cell: 0.5, 0.25, and 0.4999998
Quarter == One \div 4
NearHalf == Half - 2

\* A matrix GetOGMatrices_FullParallel may return for n genes: 0.5 on the
\* diagonal, +inf in the rows of infRows, pair[<<i, j>>] in the cells it names
\* and 0.25 in the others
PartialMatrix(n, infRows, pair) ==
    [i \in 1..n |->
        [j \in 1..n |->
            IF i \in infRows THEN PosInf
            ELSE IF i = j THEN Half
            ELSE IF << i, j >> \in DOMAIN pair THEN pair[<< i, j >>]
            ELSE Quarter]]

\* The function with the single pair x |-> v
Cell(x, v) == [y \in {x} |-> v]

\* The runs of RunAnalysis after GetOGMatrices_FullParallel returned: four
\* species in four orthogroups (the last with a gene of species 2 or of
\* species 3), and three species in one orthogroup.
TreeRuns ==
    LET info4 == [speciesToUse |-> << 0, 1, 2, 3 >>,
                  nSeqsPerSpecies |-> [sp \in 0..3 |-> IF sp = 0 THEN 2 ELSE 4]]
        info3 == [speciesToUse |-> << 0, 2, 3 >>,
                  nSeqsPerSpecies |-> [sp \in {0, 2, 3} |-> 1]]
        og1 == << Gene(0, 0), Gene(0, 1), Gene(1, 0), Gene(2, 0) >>
        og2 == << Gene(1, 1), Gene(2, 1), Gene(3, 0) >>
        og3 == << Gene(1, 2), Gene(2, 2) >>
    IN  { [seqsInfo |-> info4,
           ogs |-> << og1, og2, og3, << Gene(1, 3), Gene(last, 3) >> >>,
           m |-> << PartialMatrix(4, {}, [x \in {<< 1, 3 >>, << 2, 3 >>} |->
                                            IF x[1] = 1 THEN a ELSE b]),
                    PartialMatrix(3, {}, [x \in {<< 1, 3 >>, << 3, 1 >>} |->
                                            IF x[1] = 1 THEN c ELSE Half]),
                    PartialMatrix(2, {}, [x \in {<< 1, 2 >>, << 2, 1 >>} |->
                                            IF x[1] = 1 THEN d ELSE Half]),
                    PartialMatrix(2, e, << >>) >>] :
            a \in {Half, Quarter}, b \in {NearHalf, Quarter},
            c \in {NearHalf, Quarter}, d \in {Half, NearHalf, Quarter},
            e \in {{}, {1}}, last \in {2, 3} }
        \cup
        { [seqsInfo |-> info3,
           ogs |-> << << Gene(2, 0), Gene(0, 0), Gene(3, 0) >> >>,
           m |-> << PartialMatrix(3, e, Cell(<< 1, 2 >>, c)) >>] :
            c \in {NearHalf, Quarter}, e \in {{}, {3}} }

\* ------------------------------------------------------------------- state
VARIABLES
    nProcesses,   \* self.nProcesses
    seqsInfo,     \* self.ogSet.seqsInfo
    ogs,          \* self.ogSet.OGs()
    fileInfo,     \* the BLAST files: what GetBLAST6Scores finds for each species
    cmd_queue,    \* the mp.Queue of (iiSp, sp1, nSeqs_sp1)
    ppc,          \* where the parent is: "put", "start", "join", "transform", "done"
    pidx,         \* the parent's loop index
    wpc,          \* per worker: "new", "get", "work", "exited", "crashed"
    witem,        \* per worker: the item it is processing (NoItem: none)
    ogMatrices,   \* the shared matrices
    writers,      \* per cell: the iiSp of the items whose processing assigned it
    mins,         \* per species position: mins of the iteration that processed it
    maxes,        \* per species position: maxes of that iteration
    nTaken,       \* per species position: how often its item was taken
    nDone,        \* per species position: the iterations that ran to their end
    scattered,    \* ogMatrices_partial, as GetOGMatrices_FullParallel returned it
    max_ogs,      \* per orthogroup: max_og given to WritePhylipMatrix
    files,        \* per orthogroup: the lines of its distance matrix file
    stored,       \* per species position and row: the scores stored in Bs for it
    cmds_trees,   \* RunAnalysis: the command lists, one per tree
    D,            \* SpeciesTreeDistances: per species pair, the list of samples
    M,            \* PrepareSpeciesTreeCommand: the species matrix
    speciesFile,  \* the lines of the species matrix file
    ustate,       \* per command list: "queued", "running", "success", "failure"
    invoked,      \* per command list: how many of its commands were invoked
    clusters,     \* MCL.GetPredictedOGs(clustersFN): the clusters, as gene texts
    ogs_all,      \* OrthoGroupsSet.ogs_all (None, or the list of all orthogroups)
    iOgs4,        \* OrthoGroupsSet.iOgs4
    calls,        \* the calls of OGs made so far: qInclAll and the list returned
    seqs          \* the Seq constructions made so far: seqInput and the outcome

treeVars == << cmds_trees, D, M, speciesFile, ustate, invoked >>
ogSetVars == << clusters, ogs_all, iOgs4, calls, seqs >>

vars == << nProcesses, seqsInfo, ogs, fileInfo, cmd_queue, ppc, pidx, wpc, witem, ogMatrices,
           writers, mins, maxes, nTaken, nDone, scattered, max_ogs, files, stored,
           treeVars, ogSetVars >>

inputVars == << nProcesses, seqsInfo, ogs, fileInfo >>
workerVars == << wpc, witem, writers, mins, maxes, nTaken, nDone >>
outVars == << scattered, max_ogs, files >>

Workers == 1..nProcesses
NoItem == [iiSp |-> 0, sp1 |-> -1, nSeqs_sp1 |-> 0]
speciesToUse == seqsInfo.speciesToUse
Positions == 1..Len(speciesToUse)

\* fileInfo when the content of the BLAST files is left open: each call of
\* GetBLAST6Scores may return any scores, or raise
AnyFiles == [fixed |-> FALSE, Bs |-> << >>, unreadable |-> {}]

\* The lists Bs the worker may read for the species at position k
ReadableBs(k) ==
    IF fileInfo.fixed THEN { fileInfo.Bs[k] }
    ELSE BsChoices(seqsInfo, speciesToUse[k])

\* GetBLAST6Scores raises for the species at position k
ReadRaises(k) == ~fileInfo.fixed \/ k \in fileInfo.unreadable

\* None, and a value that is not None
None == << >>
Some(v) == << v >>

\* OrthoGroupsSet.__init__: ogs_all = None, iOgs4 = 0; no call of OGs and no
\* Seq construction was made
OGSetInit ==
    /\ ogs_all = None
    /\ iOgs4 = 0
    /\ calls = << >>
    /\ seqs = << >>

\* RunAnalysis has not reached PrepareGeneTreeCommand
TreeVarsInit ==
    /\ cmds_trees = << >>
    /\ D = << >>
    /\ M = << >>
    /\ speciesFile = << >>
    /\ ustate = << >>
    /\ invoked = << >>

InitRun ==
    /\ nProcesses \in 1..MaxProcesses
    /\ \E run \in RunInputs : seqsInfo = run.seqsInfo /\ ogs = run.ogs
    /\ cmd_queue = << >>
    /\ ppc = "put"
    /\ pidx = 1
    /\ wpc = [w \in 1..nProcesses |-> "new"]
    /\ witem = [w \in 1..nProcesses |-> NoItem]
    /\ ogMatrices = [iog \in 1..Len(ogs) |->
                        [i \in 1..Len(ogs[iog]) |-> [j \in 1..Len(ogs[iog]) |-> 0]]]
    /\ writers = [iog \in 1..Len(ogs) |->
                     [i \in 1..Len(ogs[iog]) |-> [j \in 1..Len(ogs[iog]) |-> {}]]]
    /\ mins = [k \in Positions |-> << >>]
    /\ maxes = [k \in Positions |-> << >>]
    /\ nTaken = [k \in Positions |-> 0]
    /\ nDone = [k \in Positions |-> 0]
    /\ scattered = << >>
    /\ max_ogs = [iog \in 1..Len(ogs) |-> NegBig]
    /\ files = [iog \in 1..Len(ogs) |-> << >>]
    /\ stored = [k \in Positions |-> << >>]
    /\ TreeVarsInit

\* The state when GetOGMatrices_FullParallel is called, for any BLAST files
Init == InitRun /\ fileInfo = AnyFiles /\ clusters = << >> /\ OGSetInit

\* proc.is_alive()
IsAlive_Never(w) == FALSE
IsAlive(w) == wpc[w] \in {"get", "work"}

\* cmd_queue.get(True, 1) ends with Queue.Empty: no item arrived within the second
GetTimesOut_Never(q) == FALSE
GetTimesOut(q) == q = << >>

\* cmd_queue.put((iiSp, sp1, nSeqs[sp1])) for the next species
ParentPut ==
    /\ ppc = "put"
    /\ cmd_queue' = Append(cmd_queue,
                           [iiSp |-> pidx, sp1 |-> speciesToUse[pidx],
                            nSeqs_sp1 |-> seqsInfo.nSeqsPerSpecies[speciesToUse[pidx]]])
    /\ IF pidx = Len(speciesToUse) THEN ppc' = "start" /\ pidx' = 1
                          ELSE ppc' = ppc /\ pidx' = pidx + 1
    /\ UNCHANGED << inputVars, ogSetVars, treeVars, stored, workerVars, ogMatrices, outVars >>

\* proc.start() for the next process
ParentStart ==
    /\ ppc = "start"
    /\ wpc' = [wpc EXCEPT ![pidx] = "get"]
    /\ IF pidx = nProcesses THEN ppc' = "join" /\ pidx' = 1
                            ELSE ppc' = ppc /\ pidx' = pidx + 1
    /\ UNCHANGED << inputVars, ogSetVars, treeVars, stored, cmd_queue, witem, writers, mins, maxes, nTaken, nDone,
                    ogMatrices, outVars >>

\* while proc.is_alive(): proc.join()  for the next process; after the last
\* one GetOGMatrices_FullParallel returns ogs, ogMatrices
ParentJoin ==
    /\ ppc = "join"
    /\ ~IsAlive(pidx)
    /\ IF pidx = nProcesses
       THEN ppc' = "transform" /\ pidx' = 1 /\ scattered' = ogMatrices
       ELSE ppc' = ppc /\ pidx' = pidx + 1 /\ scattered' = scattered
    /\ UNCHANGED << inputVars, ogSetVars, treeVars, stored, cmd_queue, workerVars, ogMatrices, max_ogs, files >>

\* iiSp, sp1, nSeqs_sp1 = cmd_queue.get(True, 1) returns an item
WorkerGet(w) ==
    /\ wpc[w] = "get"
    /\ cmd_queue # << >>
    /\ witem' = [witem EXCEPT ![w] = Head(cmd_queue)]
    /\ cmd_queue' = Tail(cmd_queue)
    /\ wpc' = [wpc EXCEPT ![w] = "work"]
    /\ nTaken' = [nTaken EXCEPT ![Head(cmd_queue).iiSp] = @ + 1]
    /\ UNCHANGED << inputVars, ogSetVars, treeVars, stored, ppc, pidx, writers, mins, maxes, nDone, ogMatrices,
                    outVars >>

\* except Queue.Empty: return
WorkerEmpty(w) ==
    /\ wpc[w] = "get"
    /\ GetTimesOut(cmd_queue)
    /\ wpc' = [wpc EXCEPT ![w] = "exited"]
    /\ UNCHANGED << inputVars, ogSetVars, treeVars, stored, cmd_queue, ppc, pidx, witem, writers, mins, maxes,
                    nTaken, nDone, ogMatrices, outVars >>

\* The body of the loop for the item taken: read Bs, mins and maxes, the writes
WorkerProcess(w) ==
    /\ wpc[w] = "work"
    /\ ~(fileInfo.fixed /\ witem[w].iiSp \in fileInfo.unreadable)
    /\ \E Bs \in ReadableBs(witem[w].iiSp) :
       \E mn \in {WorkerMins(seqsInfo, Bs, witem[w].sp1)},
          mx \in {WorkerMaxes(seqsInfo, Bs, witem[w].sp1)} :
         LET k == witem[w].iiSp
         IN  /\ mins' = [mins EXCEPT ![k] = mn]
             /\ maxes' = [maxes EXCEPT ![k] = mx]
             /\ ogMatrices' = Scatter(speciesToUse, ogs, ogMatrices, k, Bs, mn, mx)
             /\ writers' = [iog \in 1..Len(ogs) |->
                              [i \in 1..Len(ogs[iog]) |->
                                 [j \in 1..Len(ogs[iog]) |->
                                    IF IsWriteCell(speciesToUse, ogs[iog], k, i, j)
                                    THEN writers[iog][i][j] \cup {k}
                                    ELSE writers[iog][i][j]]]]
             /\ nDone' = [nDone EXCEPT ![k] = @ + 1]
             /\ stored' = [stored EXCEPT ![k] = StoredScores(seqsInfo, Bs, witem[w].sp1)]
    /\ wpc' = [wpc EXCEPT ![w] = "get"]
    /\ witem' = [witem EXCEPT ![w] = NoItem]
    /\ UNCHANGED << inputVars, ogSetVars, treeVars, cmd_queue, ppc, pidx, nTaken, outVars >>

\* GetBLAST6Scores raises (a BLAST file is missing or malformed): the
\* exception is not Queue.Empty, so it ends the worker process
WorkerCrash(w) ==
    /\ wpc[w] = "work"
    /\ ReadRaises(witem[w].iiSp)
    /\ wpc' = [wpc EXCEPT ![w] = "crashed"]
    /\ witem' = [witem EXCEPT ![w] = NoItem]
    /\ UNCHANGED << inputVars, ogSetVars, treeVars, stored, cmd_queue, ppc, pidx, writers, mins, maxes,
                    nTaken, nDone, ogMatrices, outVars >>

\* One iteration of the loop of CompleteAndWriteOGMatrices over the orthogroups
CompleteAndWriteOGMatrices ==
    /\ ppc = "transform"
    /\ LET st == Transform(ogMatrices[pidx])
       IN  /\ ogMatrices' = [ogMatrices EXCEPT ![pidx] = st.m]
           /\ max_ogs' = [max_ogs EXCEPT ![pidx] = st.max_og]
           /\ files' = [files EXCEPT ![pidx] =
                  WritePhylipMatrix(st.m,
                                    [i \in 1..Len(ogs[pidx]) |-> ToString(ogs[pidx][i])],
                                    st.max_og)]
    /\ IF pidx = Len(ogs) THEN ppc' = "done" /\ pidx' = 1
                          ELSE ppc' = ppc /\ pidx' = pidx + 1
    /\ UNCHANGED << inputVars, ogSetVars, treeVars, stored, cmd_queue, workerVars, scattered >>

\* ---------------------------------------------------- RunAnalysis, line 403 on
matrixVars == << cmd_queue, wpc, witem, ogMatrices, writers, mins, maxes, nTaken,
                 nDone, scattered, max_ogs, files, stored >>

\* cmds_trees = self.PrepareGeneTreeCommand(): one list of one command per orthogroup
PrepareGeneTreeCommand_OneUnit ==
    /\ ppc = "done"
    /\ cmds_trees' = << [iog \in 1..Len(ogs) |->
                           FastmeCommand(GetOGsDistMatFN(iog - 1), GetOGsTreeFN(iog - 1),
                                         Len(ogs[iog]))] >>
    /\ ppc' = "species"
    /\ UNCHANGED << inputVars, ogSetVars, matrixVars, pidx, D, M, speciesFile, ustate, invoked >>
PrepareGeneTreeCommand ==
    /\ ppc = "done"
    /\ cmds_trees' = [iog \in 1..Len(ogs) |->
                        << FastmeCommand(GetOGsDistMatFN(iog - 1), GetOGsTreeFN(iog - 1),
                                         Len(ogs[iog])) >>]
    /\ ppc' = "species"
    /\ UNCHANGED << inputVars, ogSetVars, matrixVars, pidx, D, M, speciesFile, ustate, invoked >>

\* qLessThanFourSpecies: spTreeFN_ids = GetSpeciesTree_TwoThree(speciesToUse)
GetSpeciesTree_TwoThree ==
    /\ ppc = "species"
    /\ Len(speciesToUse) < 4
    /\ ppc' = "run"
    /\ UNCHANGED << inputVars, ogSetVars, matrixVars, pidx, treeVars >>

\* One iteration of the loop of SpeciesTreeDistances over the orthogroups; it
\* is called when there are four species or more and not enough orthogroups
\* for STAG, and starts from D = [[] for _ in spPairs]
SpeciesTreeDistances ==
    /\ ppc \in {"species", "distances"}
    /\ ppc = "species" =>
          Len(speciesToUse) >= 4 /\ ~EnoughOGsForSTAG(ogs, speciesToUse)
    /\ LET Dl == IF ppc = "species"
                 THEN [p \in 1..Len(spPairs(speciesToUse)) |-> << >>]
                 ELSE D
       IN  D' = SpeciesTreeDistancesOG(speciesToUse, Dl, ogs[pidx], ogMatrices[pidx])
    /\ IF pidx = Len(ogs) THEN ppc' = "sptree" /\ pidx' = 1
                          ELSE ppc' = "distances" /\ pidx' = pidx + 1
    /\ UNCHANGED << inputVars, ogSetVars, matrixVars, cmds_trees, M, speciesFile, ustate, invoked >>

\* cmd_spTree, spTreeFN_ids = self.PrepareSpeciesTreeCommand(D, spPairs);
\* cmds_trees = [[cmd_spTree]] + cmds_trees
PrepareSpeciesTreeCommand ==
    /\ ppc = "sptree"
    /\ \E Mx \in {SpeciesMatrix(speciesToUse, D)} :
          /\ M' = Mx
          /\ speciesFile' = SpeciesMatrixLines(speciesToUse, Mx)
    /\ cmds_trees' = << << FastmeCommand(GetSpeciesTreeMatrixFN, GetSpeciesTreeUnrootedFN,
                                         Len(speciesToUse)) >> >> \o cmds_trees
    /\ ppc' = "run"
    /\ UNCHANGED << inputVars, ogSetVars, matrixVars, pidx, D, ustate, invoked >>

\* util.RunParallelOrderedCommandLists(self.nProcesses, cmds_trees) is called:
\* every command list is queued
RunParallelOrderedCommandLists ==
    /\ ppc = "run"
    /\ ustate' = [u \in 1..Len(cmds_trees) |-> "queued"]
    /\ invoked' = [u \in 1..Len(cmds_trees) |-> 0]
    /\ ppc' = "commands"
    /\ UNCHANGED << inputVars, ogSetVars, matrixVars, pidx, cmds_trees, D, M, speciesFile >>

\* A free process of the pool takes the next queued command list
PoolTake(u) ==
    /\ ppc = "commands"
    /\ ustate[u] = "queued"
    /\ \A v \in 1..(u - 1) : ustate[v] # "queued"
    /\ Cardinality({ v \in DOMAIN ustate : ustate[v] = "running" }) < nProcesses
    /\ ustate' = [ustate EXCEPT ![u] = "running"]
    /\ UNCHANGED << inputVars, ogSetVars, matrixVars, ppc, pidx, cmds_trees, D, M, speciesFile,
                    invoked >>

\* The next command of a running list is invoked and succeeds
CommandSucceeds(u) ==
    /\ ppc = "commands"
    /\ ustate[u] = "running"
    /\ invoked' = [invoked EXCEPT ![u] = @ + 1]
    /\ ustate' = [ustate EXCEPT ![u] =
                     IF invoked[u] + 1 = Len(cmds_trees[u]) THEN "success" ELSE @]
    /\ UNCHANGED << inputVars, ogSetVars, matrixVars, ppc, pidx, cmds_trees, D, M, speciesFile >>

\* The next command of a running list is invoked and fails: the rest of the
\* list is skipped
CommandFails(u) ==
    /\ ppc = "commands"
    /\ ustate[u] = "running"
    /\ invoked' = [invoked EXCEPT ![u] = @ + 1]
    /\ ustate' = [ustate EXCEPT ![u] = "failure"]
    /\ UNCHANGED << inputVars, ogSetVars, matrixVars, ppc, pidx, cmds_trees, D, M, speciesFile >>

Next ==
    \/ ParentPut
    \/ ParentStart
    \/ ParentJoin
    \/ \E w \in Workers : WorkerGet(w)
    \/ \E w \in Workers : WorkerEmpty(w)
    \/ \E w \in Workers : WorkerProcess(w)
    \/ \E w \in Workers : WorkerCrash(w)
    \/ CompleteAndWriteOGMatrices

Spec == Init /\ [][Next]_vars

\* The steps of GetOGMatrices_FullParallel and of the processes it starts
GetOGMatrices_FullParallel ==
    \/ ParentPut
    \/ ParentStart
    \/ ParentJoin
    \/ \E w \in Workers :
          WorkerGet(w) \/ WorkerEmpty(w) \/ WorkerProcess(w) \/ WorkerCrash(w)

\* The operating system keeps scheduling the parent and the processes it
\* started: while one of them can take a step, one of them does.
FairSpec == Spec /\ WF_vars(GetOGMatrices_FullParallel)

\* Score patterns of a list Bs: the score of the cells whose indices have an
\* even sum, and that of the others
ScorePatterns == { << HighScore, HighScore >>, << LowScore, HighScore >>, << 0, LowScore >> }

\* Some lists Bs that GetBLAST6Scores may return for species sp1
BsSamples(info, sp1) ==
    { [x \in BsDomain(info, sp1) |->
          IF (x[1] + x[2] + x[3]) % 2 = 0 THEN pat[1] ELSE pat[2]] :
      pat \in ScorePatterns }

\* BLAST files with a given content: the list Bs of every species, and at
\* most one species whose files cannot be read
FixedFiles(info) ==
    { [fixed |-> TRUE, Bs |-> bs, unreadable |-> u] :
        bs \in { f \in [1..Len(info.speciesToUse) ->
                           UNION { BsSamples(info, info.speciesToUse[k]) :
                                     k \in 1..Len(info.speciesToUse) }] :
                     \A k \in 1..Len(info.speciesToUse) :
                         f[k] \in BsSamples(info, info.speciesToUse[k]) },
        u \in { {} } \cup { {k} : k \in 1..Len(info.speciesToUse) } }

\* GetOGMatrices_FullParallel is called on given BLAST files
FilesInit ==
    InitRun /\ fileInfo \in FixedFiles(seqsInfo) /\ clusters = << >> /\ OGSetInit

\* The runs of GetOGMatrices_FullParallel and CompleteAndWriteOGMatrices on
\* given BLAST files, for every number of processes and every schedule
FilesSpec == FilesInit /\ [][Next]_vars

\* ------------------------------------------------------------ Seq objects
\* The bounds of the Seq constructions
MaxSeqs == 3

\* The values given to Seq(...): texts with and without the form
\* "<species>_<sequence>", pairs of integers, lists of other lengths, and an
\* integer
SeqInputs ==
    { [kind |-> "str", text |-> t, items |-> << >>] :
        t \in { "0_0", "0_1", "1_0", "2_1", "12_10", "1", "1_2_3", "a_1", "1_", "" } }
    \cup { [kind |-> "list", text |-> "", items |-> it] :
              it \in { << 0, 0 >>, << 0, 1 >>, << 1, 0 >>, << 1, 1 >>, << 2, 1 >>,
                       << 12, 10 >> } }
    \cup { [kind |-> "list", text |-> "", items |-> it] :
              it \in { << >>, << 1 >>, << 1, 2, 3 >> } }
    \cup { [kind |-> "int", text |-> "", items |-> << >>] }

\* The program state in which the Seq objects are built: the run is fixed
SeqRun ==
    /\ InitRun
    /\ nProcesses = 1
    /\ ogs = << << Gene(0, 0), Gene(1, 0), Gene(0, 1) >> >>
    /\ fileInfo = AnyFiles
    /\ clusters = << >>
    /\ OGSetInit

\* Seq(seqInput) is evaluated
SeqNew ==
    /\ Len(seqs) < MaxSeqs
    /\ \E seqInput \in SeqInputs :
          seqs' = Append(seqs, [seqInput |-> seqInput, made |-> SeqInit(seqInput)])
    /\ UNCHANGED << inputVars, matrixVars, ppc, pidx, treeVars, clusters, ogs_all, iOgs4,
                    calls >>

\* x.ToString() of an object made before is given to Seq(...)
SeqOfToString ==
    /\ Len(seqs) < MaxSeqs
    /\ \E k \in DOMAIN seqs :
          /\ seqs[k].made.ok
          /\ \E seqInput \in { [kind |-> "str", text |-> ToString(seqs[k].made.seq),
                                  items |-> << >>] } :
                seqs' = Append(seqs, [seqInput |-> seqInput, made |-> SeqInit(seqInput)])
    /\ UNCHANGED << inputVars, matrixVars, ppc, pidx, treeVars, clusters, ogs_all, iOgs4,
                    calls >>

SeqNext == SeqNew \/ SeqOfToString

SeqSpec == SeqRun /\ [][SeqNext]_vars

\* --------------------------------------------------------- OrthoGroupsSet.OGs
\* The bounds of the clustering results and of the calls of OGs
MaxClusters == 3
MaxCalls == 3

\* The sizes a cluster may have
ClusterSizes == { 1, 3, 4, 5 }

\* Cluster k of a result, with n genes of three species, as gene texts
Cluster(k, n) == [j \in 1..n |-> NatStr(j % 3) \o "_" \o NatStr(10 * k + j)]

\* The results of MCL.GetPredictedOGs(clustersFN): up to MaxClusters clusters
\* with sizes in any order, the empty result included
Clusterings ==
    UNION { { [k \in 1..n |-> Cluster(k, sizes[k])] : sizes \in [1..n -> ClusterSizes] } :
              n \in 0..MaxClusters }

\* [[Seq(g) for g in og] for og in ogs]
SeqsOf(cl) == [k \in DOMAIN cl |-> [j \in DOMAIN cl[k] |-> SeqInit([kind |-> "str", text |-> cl[k][j], items |-> << >>]).seq]]

\* next(i for i, og in enumerate(all) if len(og) < 4)
FirstBelow4(all) == (CHOOSE k \in DOMAIN all : Len(all[k]) < 4 /\ \A l \in 1..(k - 1) : Len(all[l]) >= 4) - 1

\* len(self.ogs_all) if len(self.ogs_all[-1]) >= 4 else next(...)
IOgs4_Count(all) == Cardinality({ k \in DOMAIN all : Len(all[k]) >= 4 })
IOgs4(all) == IF Len(all[Len(all)]) >= 4 THEN Len(all) ELSE FirstBelow4(all)

\* The value OGs returns from ogs_all and iOgs4
OGsResult(all, i4, qInclAll) == IF qInclAll THEN all ELSE SubSeq(all, 1, i4)

\* The program state in which OGs is called: the run is fixed, the clustering
\* result is any of Clusterings
OGsRun ==
    /\ InitRun
    /\ nProcesses = 1
    /\ ogs = << << Gene(0, 0), Gene(1, 0), Gene(0, 1) >> >>
    /\ fileInfo = AnyFiles
    /\ clusters \in Clusterings
    /\ OGSetInit

\* OGs(qInclAll) when ogs_all is set: the cached lists are returned
OGsCached ==
    /\ Len(calls) < MaxCalls
    /\ ogs_all # None
    /\ \E qInclAll \in BOOLEAN :
          calls' = Append(calls, [qInclAll |-> qInclAll, raised |-> FALSE,
                                  ogs |-> OGsResult(ogs_all[1], iOgs4, qInclAll)])
    /\ UNCHANGED << inputVars, matrixVars, ppc, pidx, treeVars, clusters, ogs_all, iOgs4,
                    seqs >>

\* OGs(qInclAll) when ogs_all is None: the clusters are read, ogs_all and
\* iOgs4 are set. For an empty result self.ogs_all[-1] raises IndexError
\* after ogs_all was set.
OGsRead ==
    /\ Len(calls) < MaxCalls
    /\ ogs_all = None
    /\ \E all \in { SeqsOf(clusters) } :
          /\ ogs_all' = Some(all)
          /\ IF all = << >>
             THEN /\ iOgs4' = iOgs4
                  /\ \E qInclAll \in BOOLEAN :
                        calls' = Append(calls, [qInclAll |-> qInclAll, raised |-> TRUE,
                                                ogs |-> << >>])
             ELSE /\ iOgs4' = IOgs4(all)
                  /\ \E qInclAll \in BOOLEAN :
                        calls' = Append(calls, [qInclAll |-> qInclAll, raised |-> FALSE,
                                                ogs |-> OGsResult(all, IOgs4(all), qInclAll)])
    /\ UNCHANGED << inputVars, matrixVars, ppc, pidx, treeVars, clusters, seqs >>

OGsNext == OGsRead \/ OGsCached

OGsSpec == OGsRun /\ [][OGsNext]_vars

\* RunAnalysis from line 401 on: GetOGMatrices_FullParallel has returned ogs
\* and ogMatrices_partial, every worker has exited
TreeInit ==
    /\ nProcesses \in 1..MaxProcesses
    /\ fileInfo = AnyFiles
    /\ clusters = << >>
    /\ OGSetInit
    /\ \E run \in TreeRuns :
          /\ seqsInfo = run.seqsInfo
          /\ ogs = run.ogs
          /\ ogMatrices = run.m
          /\ scattered = run.m
    /\ cmd_queue = << >>
    /\ ppc = "transform"
    /\ pidx = 1
    /\ wpc = [w \in 1..nProcesses |-> "exited"]
    /\ witem = [w \in 1..nProcesses |-> NoItem]
    /\ writers = [iog \in 1..Len(ogs) |->
                     [i \in 1..Len(ogs[iog]) |-> [j \in 1..Len(ogs[iog]) |->
                         { k \in Positions : speciesToUse[k] = ogs[iog][i].iSp }]]]
    /\ mins = [k \in Positions |-> << >>]
    /\ maxes = [k \in Positions |-> << >>]
    /\ nTaken = [k \in Positions |-> 1]
    /\ nDone = [k \in Positions |-> 1]
    /\ max_ogs = [iog \in 1..Len(ogs) |-> NegBig]
    /\ files = [iog \in 1..Len(ogs) |-> << >>]
    /\ stored = [k \in Positions |-> << >>]
    /\ TreeVarsInit

TreeNext ==
    \/ CompleteAndWriteOGMatrices
    \/ PrepareGeneTreeCommand
    \/ GetSpeciesTree_TwoThree
    \/ SpeciesTreeDistances
    \/ PrepareSpeciesTreeCommand
    \/ RunParallelOrderedCommandLists
    \/ \E u \in DOMAIN ustate : PoolTake(u)
    \/ \E u \in DOMAIN ustate : CommandSucceeds(u)
    \/ \E u \in DOMAIN ustate : CommandFails(u)

TreeSpec == TreeInit /\ [][TreeNext]_vars

\* ------------------------------------------------------------------ claims
\* GetOGMatrices_FullParallel has returned ogs, ogMatrices
Returned == ppc \in {"transform", "done"}

\* CompleteAndWriteOGMatrices has transformed and written orthogroup iog
Finalized(iog) == ppc = "done" \/ (ppc = "transform" /\ iog < pidx)

OGIndices == 1..Len(ogs)
GeneIndices(iog) == 1..Len(ogs[iog])
AllGeneIndices == UNION { GeneIndices(iog) : iog \in OGIndices }

\* The species positions whose item is responsible for row i of orthogroup iog
RowPositions(iog, i) == { k \in Positions : speciesToUse[k] = ogs[iog][i].iSp }

\* The pieces of a line between its single spaces
RECURSIVE SplitSp(_, _, _)
SplitSp(str, i, cur) ==
    IF i > Len(str) THEN << cur >>
    ELSE IF SubSeq(str, i, i) = " " THEN << cur >> \o SplitSp(str, i + 1, "")
    ELSE SplitSp(str, i + 1, cur \o SubSeq(str, i, i))

\* The value written for cell (i, j) in the file of orthogroup iog
WrittenValue(iog, i, j) == SplitSp(files[iog][i + 1], 1, "")[j + 1]

\* C1: during the scatter no cell is written by two workers: a cell (i, j) is
\* assigned only while the item of the species of row gene i is processed, an
\* item is taken at most once, and two workers never hold the same item.
C1_WritePartition ==
    /\ \A iog \in OGIndices : \A i, j \in GeneIndices(iog) :
          writers[iog][i][j] \subseteq RowPositions(iog, i)
    /\ \A k \in Positions : nTaken[k] <= 1
    /\ \A w1, w2 \in Workers :
          (w1 # w2 /\ wpc[w1] = "work" /\ wpc[w2] = "work") => witem[w1] # witem[w2]

\* C1 witness: two workers ran, and one matrix holds cells of two species' items
C1_Witness ==
    /\ nProcesses >= 2
    /\ Returned
    /\ \E iog \in OGIndices : \E i1, j1, i2, j2 \in GeneIndices(iog) :
          /\ writers[iog][i1][j1] # {}
          /\ writers[iog][i2][j2] # {}
          /\ writers[iog][i1][j1] # writers[iog][i2][j2]

\* Python's == on floats
EqNum(a, b) == a # NaN /\ b # NaN /\ a = b

\* C2: a finalized matrix is symmetric.
C2_Symmetry ==
    \A iog \in OGIndices :
        Finalized(iog) =>
            \A i, j \in GeneIndices(iog) :
                EqNum(ogMatrices[iog][i][j], ogMatrices[iog][j][i])

\* C2 witness: a finalized matrix whose two triangles differed after the scatter
C2_Witness ==
    \E iog \in OGIndices :
        /\ Finalized(iog)
        /\ \E i, j \in GeneIndices(iog) :
              /\ i # j
              /\ scattered[iog][i][j] # scattered[iog][j][i]
              /\ scattered[iog][i][j] # 0

\* C3: once GetOGMatrices_FullParallel has returned no worker process is
\* alive, and no step assigns a cell on behalf of a worker.
C3_NoScatterAfterReturn ==
    /\ [](Returned => \A w \in Workers : ~(wpc[w] \in {"get", "work"}))
    /\ [][Returned => (writers' = writers /\ nDone' = nDone)]_vars

\* C3 witness: the transform ran after two workers wrote cells
C3_Witness ==
    /\ ppc = "done"
    /\ nProcesses >= 2
    /\ \A k \in Positions : nDone[k] = 1

\* C4 (as claimed): when GetOGMatrices_FullParallel has returned the queue is
\* empty and every species was taken and fully processed exactly once.
C4_QueueDrained ==
    Returned =>
        /\ cmd_queue = << >>
        /\ \A k \in Positions : nTaken[k] = 1 /\ nDone[k] = 1

\* A cell of a matrix that the transform has not reached yet and a worker wrote
ScatterCells ==
    { c \in OGIndices \X AllGeneIndices \X AllGeneIndices :
          /\ c[2] \in GeneIndices(c[1])
          /\ c[3] \in GeneIndices(c[1])
          /\ ~Finalized(c[1])
          /\ writers[c[1]][c[2]][c[3]] # {} }

\* The combined row maximum the worker computed for row gene i of orthogroup iog
RowMax(iog, i) ==
    maxes[SpIndex(speciesToUse, ogs[iog][i].iSp)][ogs[iog][i].iSeq]
RowMin(iog, i) ==
    mins[SpIndex(speciesToUse, ogs[iog][i].iSp)][ogs[iog][i].iSeq]

C6_FailureIsFatal ==
    (\E w \in Workers : wpc[w] = "crashed") => ~Returned

\* The rows of genes whose species was processed with combined row maximum 0,
\* in matrices the transform has not reached yet
NoDataRows ==
    { c \in OGIndices \X AllGeneIndices :
          /\ c[2] \in GeneIndices(c[1])
          /\ ~Finalized(c[1])
          /\ \E k \in RowPositions(c[1], c[2]) : nDone[k] > 0
          /\ RowMax(c[1], c[2]) = 0 }

C8_SentinelResolution ==
    \A iog \in OGIndices :
        Finalized(iog) =>
            \A i, j \in GeneIndices(iog) :
                /\ ogMatrices[iog][i][j] = NegInf =>
                      WrittenValue(iog, i, j) = Format6(Mul11(max_ogs[iog]))
                /\ WrittenValue(iog, i, j) # "-inf"

\* C8 witness: a written matrix with a -inf pair and a finite pair
C8_Witness ==
    \E iog \in OGIndices :
        /\ Finalized(iog)
        /\ \E i, j \in GeneIndices(iog) : ogMatrices[iog][i][j] = NegInf
        /\ max_ogs[iog] > 0 /\ max_ogs[iog] < Big

\* The run of the end-to-end example: orthogroup 1 holds one gene of each of
\* two species, and both genes have row minimum = row maximum = 10
EndToEndCase ==
    /\ Len(speciesToUse) = 2
    /\ Len(ogs[1]) = 2
    /\ ogs[1][1].iSp # ogs[1][2].iSp
    /\ \A i \in 1..2 : \E k \in RowPositions(1, i) : nDone[k] = 1
    /\ \A i \in 1..2 : RowMin(1, i) = 10 /\ RowMax(1, i) = 10

\* C9 (as claimed): in the end-to-end example both scatter values are 0.5, the
\* distance is 0 and every row of the file reads "0.000000 0.000000".
C9_EndToEnd ==
    (EndToEndCase /\ Finalized(1)) =>
        /\ scattered[1][1][2] = Half /\ scattered[1][2][1] = Half
        /\ ogMatrices[1][1][2] = 0 /\ ogMatrices[1][2][1] = 0
        /\ \A i \in 1..2 :
              files[1][i + 1] = ToString(ogs[1][i]) \o " 0.000000 0.000000"

\* C10: every worker terminates and GetOGMatrices_FullParallel returns.
C10_WorkersTerminate ==
    <>(Returned /\ \A w \in Workers : wpc[w] \in {"exited", "crashed"})

\* C10 witness: every worker ended its loop by Queue.Empty after all items
\* were processed, and the parent's joins completed
C10_Witness ==
    /\ Returned
    /\ nProcesses >= 2
    /\ \A w \in Workers : wpc[w] = "exited"
    /\ \A k \in Positions : nDone[k] = 1

\* SpeciesTreeDistances has returned D, spPairs
DistancesDone == ppc = "sptree"

PairIndices == 1..Len(spPairs(speciesToUse))

\* The cells (i, j) of orthogroup iog with gene i of species s and gene j of species t
PairCells(iog, s, t) ==
    { c \in GeneIndices(iog) \X GeneIndices(iog) :
          ogs[iog][c[1]].iSp = s /\ ogs[iog][c[2]].iSp = t }

\* The orthogroups with at least one gene of each species of pair p
WithBoth(p) ==
    { iog \in OGIndices :
          PairCells(iog, spPairs(speciesToUse)[p][1], spPairs(speciesToUse)[p][2]) # {} }

\* C11: every unordered pair of species has one list in D; the list of a pair
\* holds one sample per orthogroup with genes of both species, in the order of
\* the orthogroups, and nothing for the other orthogroups; the sample is the
\* minimum of M[i][j] over the genes i of s and j of t.
C11_SamplesAreMinima ==
    DistancesDone =>
        /\ \A a, b \in Positions :
              a < b => Cardinality({ p \in PairIndices :
                          spPairs(speciesToUse)[p] = << speciesToUse[a], speciesToUse[b] >> }) = 1
        /\ Len(spPairs(speciesToUse)) * 2 = Len(speciesToUse) * (Len(speciesToUse) - 1)
        /\ \A p \in PairIndices :
              /\ Len(D[p]) = Cardinality(WithBoth(p))
              /\ \A iog \in WithBoth(p) :
                    LET k     == Cardinality({ q \in WithBoth(p) : q <= iog })
                        cells == PairCells(iog, spPairs(speciesToUse)[p][1],
                                                spPairs(speciesToUse)[p][2])
                    IN  /\ \E c \in cells : D[p][k] = ogMatrices[iog][c[1]][c[2]]
                        /\ \A c \in cells : D[p][k] <= ogMatrices[iog][c[1]][c[2]]

\* C11 witness: a pair without any sample, and a pair whose sample is the
\* distance of the second of two gene pairs of an orthogroup
C11_Witness ==
    /\ DistancesDone
    /\ \E p \in PairIndices : D[p] = << >>
    /\ \E p \in PairIndices : \E iog \in WithBoth(p) :
          \E c1, c2 \in PairCells(iog, spPairs(speciesToUse)[p][1],
                                       spPairs(speciesToUse)[p][2]) :
              /\ c1[1] < c2[1]
              /\ ogMatrices[iog][c2[1]][c2[2]] < ogMatrices[iog][c1[1]][c1[2]]
              /\ D[p][Cardinality({ q \in WithBoth(p) : q <= iog })]
                     = ogMatrices[iog][c2[1]][c2[2]]

\* PrepareSpeciesTreeCommand has built M and written the species matrix
SpeciesMatrixDone == ppc = "run" /\ Len(speciesToUse) >= 4

\* The number of samples of d below x, and at most x
NLess(d, x) == Cardinality({ k \in DOMAIN d : d[k] < x })
NLeq(d, x) == Cardinality({ k \in DOMAIN d : d[k] <= x })

\* x is the element at position r of d put in ascending order
IsRanked(d, x, r) ==
    /\ \E k \in DOMAIN d : d[k] = x
    /\ NLess(d, x) < r
    /\ NLeq(d, x) >= r

\* The orders in which the samples of d may have been contributed
Reorderings(d) ==
    { [k \in DOMAIN d |-> d[pi[k]]] :
        pi \in { f \in [DOMAIN d -> DOMAIN d] : \A k \in DOMAIN d : \E l \in DOMAIN d : f[l] = k } }

\* The samples 0.1, 0.3, 0.5, 0.9
MedianExample == << One \div 10, 3 * (One \div 10), Half, 9 * (One \div 10) >>

\* C12: the species-level distance M[a][b] of two species is the median of the
\* sample list of their pair: the middle element of the list in ascending
\* order when its length is odd, half the sum of the two middle elements when
\* it is even; it is the same for every order of the samples, and the samples
\* 0.1, 0.3, 0.5, 0.9 give 0.4 in every order.
C12_MedianOfSamples ==
    SpeciesMatrixDone =>
        /\ \A a, b \in 1..Len(speciesToUse) :
              a # b =>
                LET d == D[PairIndex(speciesToUse, a, b)]
                    n == Len(d)
                IN  /\ n % 2 = 1 => IsRanked(d, M[a][b], (n + 1) \div 2)
                    /\ (n % 2 = 0 /\ n > 0) =>
                          \E k, l \in DOMAIN d :
                              /\ IsRanked(d, d[k], n \div 2)
                              /\ IsRanked(d, d[l], n \div 2 + 1)
                              /\ M[a][b] = HalfNum(AddNum(d[k], d[l]))
                    /\ \A e \in Reorderings(d) : Median(e) = M[a][b]
        /\ \A e \in Reorderings(MedianExample) : Median(e) = 4 * (One \div 10)

\* A pair with an even number of samples whose two middle samples differ,
\* and a pair with three samples that were not contributed in ascending order
C12_Witness ==
    /\ SpeciesMatrixDone
    /\ \E a, b \in 1..Len(speciesToUse) :
          /\ a # b
          /\ LET d == D[PairIndex(speciesToUse, a, b)]
             IN  /\ Len(d) = 2
                 /\ d[1] < d[2]
                 /\ d[2] < PosInf
                 /\ M[a][b] > d[1]
                 /\ M[a][b] < d[2]
    /\ \E p \in PairIndices : Len(D[p]) = 3 /\ D[p][2] > D[p][3]

\* CompleteAndWriteOGMatrices has written the file of orthogroup iog
FileWritten(iog) == files[iog] # << >>

\* The value WritePhylipMatrix holds for cell (i, j) of orthogroup iog before it
\* applies the sliver: the cell, or 1.1 * max_og for a cell that is not above
\* -9e99
ValueToWrite(iog, i, j) ==
    AddNum(0, IF Gt(ogMatrices[iog][i][j], NegBig) THEN ogMatrices[iog][i][j]
              ELSE Mul11(max_ogs[iog]))

\* The positions of the separators of a line, with both of its ends
Separators(str) ==
    { 0, Len(str) + 1 } \cup { k \in 1..Len(str) : SubSeq(str, k, k) = " " }

\* The number of space-separated fields of a line
NFields(str) == Cardinality(Separators(str)) - 1

\* str.split(" ")[f - 1]
Field(str, f) ==
    LET sp == Separators(str)
        from == CHOOSE k \in sp : Cardinality({ l \in sp : l < k }) = f - 1
        to == CHOOSE k \in sp : Cardinality({ l \in sp : l < k }) = f
    IN  SubSeq(str, from + 1, to - 1)

\* The value written for cell (i, j) in the file of orthogroup iog
WrittenOGValue(iog, i, j) == Field(files[iog][i + 1], j + 1)

\* The value written for the species at positions a, b in the species file
WrittenSpeciesValue(a, b) == Field(speciesFile[a + 1], b + 1)

\* "%.6f" % v for the value the claim expects in the file in place of v
Floored(v) == IF Gt(v, 0) /\ Gt(sliver, v) THEN "0.000001" ELSE Format6(v)

\* C13: in every written distance-matrix file, of an orthogroup and of the
\* species, a value v with 0 < v < 1e-6 is written as "0.000001" and every
\* other value (v = 0 and v >= 1e-6 among them) is written as it is.
C13_SmallValueFloor ==
    /\ \A iog \in OGIndices :
          FileWritten(iog) =>
              \A i, j \in GeneIndices(iog) :
                  WrittenOGValue(iog, i, j) = Floored(ValueToWrite(iog, i, j))
    /\ SpeciesMatrixDone =>
          \A a, b \in 1..Len(speciesToUse) :
              WrittenSpeciesValue(a, b) = Floored(AddNum(0, M[a][b]))

\* An orthogroup file and the species file each hold a value of 2e-7 written
\* as 0.000001, next to a zero and a value above 1e-6
C13_Witness ==
    /\ SpeciesMatrixDone
    /\ \E iog \in OGIndices :
          /\ FileWritten(iog)
          /\ \E i, j \in GeneIndices(iog) :
                /\ ValueToWrite(iog, i, j) = 2
                /\ WrittenOGValue(iog, i, j) = "0.000001"
    /\ \E a, b \in 1..Len(speciesToUse) :
          /\ M[a][b] = 2
          /\ WrittenSpeciesValue(a, b) = "0.000001"
          /\ WrittenSpeciesValue(a, a) = "0.000000"
          /\ \E c \in 1..Len(speciesToUse) : M[a][c] > sliver /\ M[a][c] < PosInf

\* C14: every value written to the distance matrix file of an orthogroup is a
\* nonnegative distance: no written value carries a minus sign, also when
\* every off-diagonal pair of the matrix is -inf.
C14_NonNegativeValues ==
    \A iog \in OGIndices :
        FileWritten(iog) =>
            \A i, j \in GeneIndices(iog) :
                SubSeq(WrittenOGValue(iog, i, j), 1, 1) # "-"

\* util.RunParallelOrderedCommandLists is running or has run the units
UnitsStarted == ppc = "commands"

\* Every unit has ended
UnitsDone == UnitsStarted /\ \A u \in DOMAIN ustate : ustate[u] \in {"success", "failure"}

\* The command that builds the tree of orthogroup iog was invoked
TreeCommandInvoked(iog) ==
    \E u \in DOMAIN cmds_trees :
        \E k \in 1..invoked[u] : Field(cmds_trees[u][k], 3) = GetOGsDistMatFN(iog - 1)

CommandsBuilt == ppc = "run"

\* cmd is "fastme -i inFN -o outFN -N -w O", followed by "-s" exactly when
\* n < 1000
IsFastmeCommand(cmd, inFN, outFN, n) ==
    /\ NFields(cmd) = IF n < 1000 THEN 9 ELSE 8
    /\ Field(cmd, 1) = "fastme"
    /\ Field(cmd, 2) = "-i"
    /\ Field(cmd, 3) = inFN
    /\ Field(cmd, 4) = "-o"
    /\ Field(cmd, 5) = outFN
    /\ Field(cmd, 6) = "-N"
    /\ Field(cmd, 7) = "-w"
    /\ Field(cmd, 8) = "O"
    /\ n < 1000 => Field(cmd, 9) = "-s"

\* The number of commands that precede those of the gene trees
NSpeciesCommands == IF Len(speciesToUse) >= 4 THEN 1 ELSE 0

\* The element counts around the threshold
ThresholdCounts == 998..1002

\* C16: every command built by PrepareGeneTreeCommand and
\* PrepareSpeciesTreeCommand is "fastme -i <matrix path> -o <tree path> -N -w O",
\* followed by "-s" exactly when the element count (genes of the orthogroup,
\* number of species) is below 1000: at 999 it is appended, at 1000 and above
\* it is not.
C16_CommandForm ==
    CommandsBuilt =>
        /\ Len(cmds_trees) = Len(ogs) + NSpeciesCommands
        /\ \A iog \in OGIndices :
              /\ Len(cmds_trees[iog + NSpeciesCommands]) = 1
              /\ IsFastmeCommand(cmds_trees[iog + NSpeciesCommands][1],
                                 GetOGsDistMatFN(iog - 1), GetOGsTreeFN(iog - 1),
                                 Len(ogs[iog]))
        /\ NSpeciesCommands = 1 =>
              /\ Len(cmds_trees[1]) = 1
              /\ IsFastmeCommand(cmds_trees[1][1], GetSpeciesTreeMatrixFN,
                                 GetSpeciesTreeUnrootedFN, Len(speciesToUse))
        /\ \A n \in ThresholdCounts :
              IsFastmeCommand(FastmeCommand(GetOGsDistMatFN(0), GetOGsTreeFN(0), n),
                              GetOGsDistMatFN(0), GetOGsTreeFN(0), n)

\* The commands of a run with a species tree command: all end with "-s"
C16_Witness ==
    /\ CommandsBuilt
    /\ NSpeciesCommands = 1
    /\ cmds_trees[1][1] =
          "fastme -i Distances/SpeciesMatrix.phy -o Trees_ids/SpeciesTree_unrooted.txt -N -w O -s"
    /\ cmds_trees[2][1] =
          "fastme -i Distances/OG0.phy -o Trees_ids/OG0_tree_id.txt -N -w O -s"
    /\ Field(FastmeCommand(GetOGsDistMatFN(0), GetOGsTreeFN(0), 1000), 8) = "O"
    /\ NFields(FastmeCommand(GetOGsDistMatFN(0), GetOGsTreeFN(0), 1000)) = 8

\* "%d" % n for the sizes of the matrices of the runs
Decimal(n) == << "1", "2", "3", "4", "5", "6", "7", "8", "9" >>[n]

\* C17: the file of a matrix of size n holds n + 1 lines; the first is the
\* decimal integer n, and line i + 1 is the label of gene i and the n values of
\* row i in column order, all separated by single spaces.
C17_PhylipLayout ==
    \A iog \in OGIndices :
        FileWritten(iog) =>
            LET n == Len(ogMatrices[iog])
            IN  /\ Len(files[iog]) = n + 1
                /\ files[iog][1] = Decimal(n)
                /\ \A i \in 1..n :
                      /\ NFields(files[iog][i + 1]) = n + 1
                      /\ Field(files[iog][i + 1], 1) = ToString(ogs[iog][i])
                      /\ \A j \in 1..n :
                            Field(files[iog][i + 1], j + 1) =
                                Floored(ValueToWrite(iog, i, j))

\* A written matrix of three genes with a row whose three values differ
C17_Witness ==
    \E iog \in OGIndices :
        /\ FileWritten(iog)
        /\ Len(ogMatrices[iog]) = 3
        /\ files[iog][1] = "3"
        /\ \E i \in 1..3 :
              /\ WrittenOGValue(iog, i, 1) # WrittenOGValue(iog, i, 2)
              /\ WrittenOGValue(iog, i, 2) # WrittenOGValue(iog, i, 3)
              /\ WrittenOGValue(iog, i, 1) # WrittenOGValue(iog, i, 3)

\* The worker of the species at position k has computed its mins and maxes
Processed(k) == mins[k] # << >>

\* mm is (least element, greatest element) of the set S of stored values, or
\* (9e99, 0) when S is empty
IsMinMaxOf(mm, S) ==
    /\ S = {} => mm = [min |-> Big, max |-> 0]
    /\ S # {} =>
          /\ mm.min \in S /\ \A y \in S : mm.min <= y
          /\ mm.max \in S /\ \A y \in S : mm.max >= y

\* No item was put on the queue yet
BeforeScatter == ppc = "put" /\ pidx = 1

\* C18: for every row of a sparse matrix lil_minmax returns (least stored
\* value, greatest stored value), or (9e99, 0) for a row without a stored
\* entry; the elementwise min/max over the matrices of a row species is that
\* of the stored entries of the row in all of them, so it is (9e99, 0) for a
\* gene exactly when no matrix has a stored entry in its row.
C18_RowExtremes ==
    /\ BeforeScatter =>
          \A sp1pos \in Positions :
              \A Bs \in BsChoices(seqsInfo, speciesToUse[sp1pos]) :
                  \A x \in BsDomain(seqsInfo, speciesToUse[sp1pos]) :
                      IsMinMaxOf(lil_minmax(seqsInfo, Bs, x[1], x[2]),
                                 { v \in ScoreVals \ {0} :
                                     \E y \in BsDomain(seqsInfo, speciesToUse[sp1pos]) :
                                         /\ y[1] = x[1]
                                         /\ y[2] = x[2]
                                         /\ Bs[y] = v })
    /\ \A k \in Positions :
          Processed(k) =>
              \A r \in DOMAIN mins[k] :
                  /\ IsMinMaxOf([min |-> mins[k][r], max |-> maxes[k][r]], stored[k][r])
                  /\ (mins[k][r] = Big /\ maxes[k][r] = 0) <=> stored[k][r] = {}

\* A processed species with a row without any stored entry and a row whose
\* least and greatest stored entries differ
C18_Witness ==
    \E k \in Positions :
        /\ Processed(k)
        /\ \E r, q \in DOMAIN mins[k] :
              /\ stored[k][r] = {}
              /\ mins[k][r] = Big
              /\ maxes[k][r] = 0
              /\ mins[k][q] = LowScore
              /\ maxes[k][q] = HighScore

\* The cells (i, j) of orthogroup iog between two genes of one species, the
\* diagonal cells among them
SameSpeciesCells(iog) ==
    { c \in GeneIndices(iog) \X GeneIndices(iog) :
          ogs[iog][c[1]].iSp = ogs[iog][c[2]].iSp }

C20_TransformReadsScatterValues ==
    \A iog \in OGIndices :
        Finalized(iog) =>
            \A i, j \in GeneIndices(iog) :
                /\ j < i =>
                      /\ ogMatrices[iog][i][j] =
                            NegLog(AddNum(scattered[iog][i][j], scattered[iog][j][i]))
                      /\ ogMatrices[iog][j][i] =
                            NegLog(AddNum(scattered[iog][i][j], scattered[iog][j][i]))
                /\ j = i => ogMatrices[iog][i][j] = scattered[iog][i][j]

\* A finalized matrix of three genes with a pair whose two scatter values are
\* finite and differ, and whose distance is finite and positive
C20_Witness ==
    \E iog \in OGIndices :
        /\ Finalized(iog)
        /\ Len(ogs[iog]) = 3
        /\ \E i, j \in GeneIndices(iog) :
              /\ j < i
              /\ scattered[iog][i][j] # scattered[iog][j][i]
              /\ scattered[iog][i][j] > 0 /\ scattered[iog][i][j] <= Half
              /\ scattered[iog][j][i] > 0 /\ scattered[iog][j][i] <= Half
              /\ ogMatrices[iog][i][j] > 0 /\ ogMatrices[iog][i][j] < PosInf
              /\ ogMatrices[iog][i][j] # scattered[iog][i][j]

\* The pairs of different genes of orthogroup iog whose two cells the scatter
\* left at 0
ZeroPairs(iog) ==
    { c \in GeneIndices(iog) \X GeneIndices(iog) :
          /\ c[1] # c[2]
          /\ scattered[iog][c[1]][c[2]] = 0
          /\ scattered[iog][c[2]][c[1]] = 0 }

\* C21: a pair of different genes whose two scatter contributions are both 0
\* is tagged as unknown by the transform, not stored as an infinity, and its
\* written value is 1.1 times the greatest finite distance of the matrix.
C21_ZeroPairTagged ==
    \A iog \in OGIndices :
        Finalized(iog) =>
            \A c \in ZeroPairs(iog) :
                /\ ogMatrices[iog][c[1]][c[2]] # PosInf
                /\ WrittenOGValue(iog, c[1], c[2]) # "inf"
                /\ WrittenOGValue(iog, c[1], c[2]) = Format6(Mul11(max_ogs[iog]))

\* The finite distances of the pairs of different genes of orthogroup iog
FiniteDistances(iog) ==
    { ogMatrices[iog][c[1]][c[2]] :
        c \in { e \in GeneIndices(iog) \X GeneIndices(iog) : e[1] # e[2] } }
    \ { PosInf, NegInf, NaN }

\* C22: the max_og handed to WritePhylipMatrix is never an infinity, and when
\* some pair of different genes has a finite distance it is the greatest
\* finite distance of the orthogroup.
C22_MaxFiniteDistance ==
    \A iog \in OGIndices :
        Finalized(iog) =>
            /\ max_ogs[iog] \notin { PosInf, NegInf }
            /\ FiniteDistances(iog) # {} =>
                  /\ max_ogs[iog] \in FiniteDistances(iog)
                  /\ \A x \in FiniteDistances(iog) : x <= max_ogs[iog]

\* What one worker leaves in the matrices M from the item of position k on: it
\* processes the items in queue order and ends at the first one whose files
\* cannot be read
RECURSIVE OneWorker(_, _)
OneWorker(Mx, k) ==
    IF k > Len(speciesToUse) \/ k \in fileInfo.unreadable THEN Mx
    ELSE OneWorker(Scatter(speciesToUse, ogs, Mx, k, fileInfo.Bs[k],
                           WorkerMins(seqsInfo, fileInfo.Bs[k], speciesToUse[k]),
                           WorkerMaxes(seqsInfo, fileInfo.Bs[k], speciesToUse[k])),
                   k + 1)

\* The matrices GetOGMatrices_FullParallel creates
ZeroMatrices ==
    [iog \in 1..Len(ogs) |->
        [i \in 1..Len(ogs[iog]) |-> [j \in 1..Len(ogs[iog]) |-> 0]]]

\* C23: the matrices the scatter returns depend only on the orthogroups and
\* the BLAST files: for every number of workers and every schedule they are
\* the matrices a single worker returns on the same files.
C23_ScheduleIndependent ==
    (fileInfo.fixed /\ Returned) => scattered = OneWorker(ZeroMatrices, 1)

\* C24: every value of the species matrix file is a finite nonnegative number:
\* no pair of species is written as nan, inf or -inf or with a minus sign, also
\* when an orthogroup holds a -inf distance between genes of the two species
\* and when no orthogroup holds genes of both.
C24_SpeciesValuesFinite ==
    SpeciesMatrixDone =>
        \A a, b \in 1..Len(speciesToUse) :
            /\ WrittenSpeciesValue(a, b) \notin { "nan", "inf", "-inf" }
            /\ SubSeq(WrittenSpeciesValue(a, b), 1, 1) # "-"

\* The Seq constructions made so far
SeqIndices == DOMAIN seqs

\* The text "<species>_<sequence>" of a pair of integers
TextOfPair(items) == NatStr(items[1]) \o "_" \o NatStr(items[2])

Returning == { k \in DOMAIN calls : ~calls[k].raised }

\* C26 (as claimed): OGs() without qInclAll returns a prefix of the list of all
\* orthogroups in which every orthogroup has at least 4 genes, whatever the
\* order of the cluster sizes; repeated calls return the same list; with
\* qInclAll it returns the list of all orthogroups.
C26_OGsAtLeastFour ==
    \A k \in Returning :
        /\ calls[k].qInclAll => calls[k].ogs = SeqsOf(clusters)
        /\ ~calls[k].qInclAll =>
              /\ Len(calls[k].ogs) <= Len(clusters)
              /\ calls[k].ogs = SubSeq(SeqsOf(clusters), 1, Len(calls[k].ogs))
              /\ \A i \in DOMAIN calls[k].ogs : Len(calls[k].ogs[i]) >= 4
              /\ \A l \in Returning : ~calls[l].qInclAll => calls[l].ogs = calls[k].ogs

\* The cluster sizes do not increase along the clustering result
SizesDescend ==
    \A k \in 1..(Len(clusters) - 1) : Len(clusters[k]) >= Len(clusters[k + 1])

\* C26 (corrected): with qInclAll OGs returns the list of all orthogroups.
\* Without it, it returns the whole list when the last orthogroup has at
\* least 4 genes, and otherwise the orthogroups before the first one with
\* fewer than 4 genes; repeated calls return the same list. Every returned
\* orthogroup has at least 4 genes when the cluster sizes do not increase.
C26_OGsUpToFirstSmall ==
    \A k \in Returning :
        LET all == SeqsOf(clusters)
            res == calls[k].ogs
        IN  /\ calls[k].qInclAll => res = all
            /\ ~calls[k].qInclAll =>
                  /\ Len(res) <= Len(all)
                  /\ res = SubSeq(all, 1, Len(res))
                  /\ (all # << >> /\ Len(all[Len(all)]) >= 4) => res = all
                  /\ (all # << >> /\ Len(all[Len(all)]) < 4) =>
                        /\ \A i \in DOMAIN res : Len(res[i]) >= 4
                        /\ Len(res) < Len(all)
                        /\ Len(all[Len(res) + 1]) < 4
                  /\ SizesDescend => \A i \in DOMAIN res : Len(res[i]) >= 4
                  /\ \A l \in Returning : ~calls[l].qInclAll => calls[l].ogs = res

\* Three calls on clusters of 5, 3 and 4 genes: the first reads the clusters
\* and returns all three, the orthogroup of 3 genes among them; the second
\* returns the same list from the cache; the third is made with qInclAll
C26_Witness ==
    /\ Len(calls) = 3
    /\ Len(clusters) = 3
    /\ Len(clusters[1]) = 5 /\ Len(clusters[2]) = 3 /\ Len(clusters[3]) = 4
    /\ ~calls[1].qInclAll /\ ~calls[2].qInclAll /\ calls[3].qInclAll
    /\ Len(calls[1].ogs) = 3
    /\ Len(calls[1].ogs[2]) = 3
    /\ calls[2].ogs = calls[1].ogs
    /\ iOgs4 = 3

\* C27: CompleteAndWriteOGMatrices assigns no diagonal cell: in a finalized
\* matrix M[i][i] is the value the scatter left there, and the self-distance
\* in the file is that value as WritePhylipMatrix writes a value.
C27_DiagonalKept ==
    \A iog \in OGIndices :
        Finalized(iog) =>
            \A i \in GeneIndices(iog) :
                /\ ogMatrices[iog][i][i] = scattered[iog][i][i]
                /\ WrittenOGValue(iog, i, i) = Floored(AddNum(0, scattered[iog][i][i]))

\* A finalized matrix whose scatter left 0.5 on the diagonal of a gene and a
\* positive value in both cells of a pair of that gene: the pair was
\* transformed, the self-distance is written as 0.500000
C27_Witness ==
    \E iog \in OGIndices :
        /\ Finalized(iog)
        /\ \E i, j \in GeneIndices(iog) :
              /\ j < i
              /\ scattered[iog][i][i] = Half
              /\ scattered[iog][i][j] > 0 /\ scattered[iog][i][j] <= Half
              /\ scattered[iog][j][i] > 0 /\ scattered[iog][j][i] <= Half
              /\ ogMatrices[iog][i][j] # scattered[iog][i][j]
              /\ WrittenOGValue(iog, i, i) = "0.500000"

====
